---- MODULE Spec2Model ----
(***************************************************************************)
(* The four Playwright walkthrough scripts of the repository               *)
(*   capture_app_screenshots.py  ("app":  async, try/except/finally)       *)
(*   capture_screenshots.py      ("sync": no exception handling)           *)
(*   take_screenshots.py         ("take": module body, no gated steps)     *)
(*   test_dashboard.py           ("dash": module body, one gated block)    *)
(* as one sequential state machine.  Each script is the list of its        *)
(* statements that touch the browser (print statements and the lazy        *)
(* page.locator(...) constructors are left out); the actions below execute *)
(* the statement at pc.  Every library call that can raise is modelled     *)
(* with both outcomes, is_visible() with both answers.                    *)
(*                                                                         *)
(* page.locator('tbody tr').first() is a call of Playwright's `first`      *)
(* property; with the released Playwright API that call raises TypeError.  *)
(* It is modelled like every other library call (it may raise or return),  *)
(* so the runs of the real library are a subset of the runs checked here.  *)
(***************************************************************************)
EXTENDS Integers, Sequences, FiniteSets, TLC

VARIABLES
  script,       \* which of the four scripts is being run
  ctl,          \* control state: notstarted, running, except, finally, unwind, exit, done
  pc,           \* index in Steps(script) of the next statement
  browserOpen,  \* the browser launched by p.chromium.launch() is alive
  launched,     \* p.chromium.launch() returned a browser
  closeCalls,   \* number of browser.close() calls executed
  closures,     \* number of times the browser went from open to closed
  attempts,     \* attempts[i]: how often statement i was executed
  visible,      \* visible[i]: answer of the check at statement i: "unknown", "yes", "no"
  written,      \* screenshot files written, in order: [ord, settled]
  settled,      \* no navigation/click/fill/press happened since the last sleep
  failedAt,     \* index of the statement that raised, 0 if none
  logged,       \* the except clause printed the error
  exitCode      \* process exit code, -1 while the process runs

vars == << script, ctl, pc, browserOpen, launched, closeCalls, closures, attempts,
           visible, written, settled, failedAt, logged, exitCode >>

Scripts == {"app", "sync", "take", "dash"}

(* One statement: its kind, the library call, its source line, the ordinal *)
(* prefix of the screenshot file, the source line control continues at     *)
(* when the if-condition is false.                                         *)
Launch(l) == [op |-> "launch", name |-> "launch", line |-> l, ord |-> 0, els |-> 0]

Act(n, l) == [op |-> "act", name |-> n, line |-> l, ord |-> 0, els |-> 0]

Sleep(l) == [op |-> "sleep", name |-> "sleep", line |-> l, ord |-> 0, els |-> 0]

Shot(o, l) == [op |-> "shot", name |-> "screenshot", line |-> l, ord |-> o, els |-> 0]

If(n, l, e) == [op |-> "if", name |-> n, line |-> l, ord |-> 0, els |-> e]

Close(l) == [op |-> "close", name |-> "close", line |-> l, ord |-> 0, els |-> 0]

(* capture_app_screenshots.py: the statements of capture_screenshots(), lines 10-127;
   browser.close() is in the finally clause (line 138), see Finally. *)
AppSteps ==
  <<
    Launch(10), Act("new_page", 11), Act("set_viewport_size", 12), Act("goto", 17),
    Act("wait_for_load_state", 18), Sleep(19), Shot(1, 22), Act("click", 26), Sleep(27),
    Act("click", 28), Act("wait_for_load_state", 29), Sleep(30), Shot(2, 31),
    Act("first", 35), If("is_visible", 36, 67), Act("click", 37),
    Act("wait_for_selector", 38), Sleep(39), Shot(3, 40), If("is_visible", 45, 61),
    Act("click", 46), Sleep(47), Shot(4, 48), If("is_visible", 53, 61), Act("click", 54),
    Act("wait_for_selector", 55), Sleep(56), Shot(5, 57), Act("press", 61), Sleep(62),
    Act("press", 63), Sleep(64), Act("click", 67), Sleep(68), Act("click", 69),
    Act("wait_for_load_state", 70), Sleep(71), Shot(6, 72), Act("click", 76), Sleep(77),
    Act("click", 78), Sleep(79), Shot(7, 80), Act("click", 84), Sleep(85), Shot(8, 86),
    Act("fill", 90), Act("fill", 91), Act("fill", 92), Act("fill", 93), Act("fill", 94),
    Sleep(95), Shot(9, 96), If("is_visible", 101, 106), Act("click", 102), Sleep(103),
    Act("click", 106), Sleep(107), Act("click", 108), Act("wait_for_load_state", 109),
    Sleep(110), Shot(10, 111), Act("first", 115), If("is_visible", 116, 130),
    Act("click", 117), Sleep(118), Shot(11, 119), If("is_visible", 124, 130),
    Act("click", 125), Sleep(126), Shot(12, 127)
  >>

(* capture_screenshots.py: the statements of capture_screenshots(), lines 6-121. *)
SyncSteps ==
  <<
    Launch(6), Act("new_page", 7), Act("set_viewport_size", 8), Act("goto", 11),
    Act("wait_for_load_state", 12), Sleep(13), Shot(1, 16), Act("click", 20), Sleep(21),
    Act("click", 22), Act("wait_for_load_state", 23), Sleep(24), Shot(2, 25),
    Act("first", 29), If("is_visible", 30, 57), Act("click", 31),
    Act("wait_for_selector", 32), Sleep(33), Shot(3, 34), Act("click", 38), Sleep(39),
    Shot(4, 40), Act("click", 44), Act("wait_for_selector", 45), Sleep(46), Shot(5, 47),
    Act("press", 51), Sleep(52), Act("press", 53), Sleep(54), Act("click", 57), Sleep(58),
    Act("click", 59), Act("wait_for_load_state", 60), Sleep(61), Shot(6, 62),
    Act("click", 66), Sleep(67), Act("click", 68), Sleep(69), Shot(7, 70),
    Act("click", 74), Sleep(75), Shot(8, 76), Act("fill", 80), Act("fill", 81),
    Act("fill", 82), Act("fill", 83), Act("fill", 84), Sleep(85), Shot(9, 86),
    Act("click", 90), Sleep(91), Act("click", 94), Sleep(95), Act("click", 96),
    Act("wait_for_load_state", 97), Sleep(98), Shot(10, 99), Act("first", 103),
    If("is_visible", 104, 118), Act("click", 105), Sleep(106), Shot(11, 107),
    If("is_visible", 112, 118), Act("click", 113), Sleep(114), Shot(12, 115), Close(121)
  >>

(* take_screenshots.py: the module body, lines 8-62. *)
TakeSteps ==
  <<
    Launch(8), Act("new_page", 9), Act("set_viewport_size", 10), Act("goto", 15),
    Act("wait_for_load_state", 16), Sleep(17), Shot(1, 18), Act("click", 22), Sleep(23),
    Act("click", 24), Act("wait_for_load_state", 25), Sleep(26), Shot(2, 27),
    Act("click", 31), Sleep(32), Act("click", 33), Act("wait_for_load_state", 34),
    Sleep(35), Shot(3, 36), Act("click", 40), Sleep(41), Act("click", 42), Sleep(43),
    Shot(4, 44), Act("click", 48), Sleep(49), Shot(5, 50), Act("click", 54), Sleep(55),
    Act("click", 56), Act("wait_for_load_state", 57), Sleep(58), Shot(6, 59), Close(62)
  >>

(* test_dashboard.py: the module body, lines 5-78. *)
DashSteps ==
  <<
    Launch(5), Act("new_page", 6), Act("goto", 9), Act("wait_for_load_state", 10),
    Shot(1, 15), Sleep(20), Act("evaluate", 23), Shot(2, 29), If("is_visible", 34, 52),
    Act("click", 35), Sleep(36), Shot(3, 40), Act("click", 45), Sleep(46), Shot(4, 50),
    Act("count", 57), If("canvas_exists", 61, 74), Act("evaluate", 62), Sleep(77), Close(78)
  >>

Steps(s) ==
  CASE s = "app" -> AppSteps
    [] s = "sync" -> SyncSteps
    [] s = "take" -> TakeSteps
    [] s = "dash" -> DashSteps

NSteps(s) == Len(Steps(s))

(* The body of the try block of capture_app_screenshots.py: lines 14-131. *)
TryFirstLine == 14

TryLastLine == 131

InTry(s, i) ==
  /\ s = "app"
  /\ Steps(s)[i].line >= TryFirstLine
  /\ Steps(s)[i].line <= TryLastLine

(* The calls that change what the page shows and are followed by a settle delay. *)
UIActions == {"goto", "wait_for_load_state", "wait_for_selector", "click", "fill", "press"}

(* Index of the first statement at or after source line l; past the end if none. *)
Target(s, l) ==
  LET later == {i \in 1..NSteps(s) : Steps(s)[i].line >= l}
  IN IF later = {} THEN NSteps(s) + 1
     ELSE CHOOSE i \in later : \A j \in later : i <= j

(* For every statement k, the index of the first statement at or after its *)
(* els line: for an if statement, the first statement after its block.     *)
ElseIndex ==
  [s \in Scripts |-> [k \in 1..NSteps(s) |-> Target(s, Steps(s)[k].els)]]

(* For every statement i, the if statements whose blocks enclose it. *)
Enclosing ==
  [s \in Scripts |->
     [i \in 1..NSteps(s) |->
        {k \in 1..NSteps(s) :
           Steps(s)[k].op = "if" /\ k < i /\ i < ElseIndex[s][k]}]]

(* Faulty variant: a false check falls into its block. *)
SkipToNext(s, k) == k + 1

(* Where control goes when the if at statement k is false: past its block. *)
SkipTo(s, k) == ElseIndex[s][k]

(* Faulty variant: every file gets the same ordinal prefix. *)
ShotOrdinalSame(s, i) == 1

(* The two-digit ordinal prefix of the file written by statement i. *)
ShotOrdinal(s, i) == Steps(s)[i].ord

(* Faulty variant: the statement is executed again. *)
NextPcRetry(i) == i

(* Statements run in program order, each once. *)
NextPc(i) == i + 1

(* An exception raised at statement i: inside the try block of "app" the   *)
(* except clause takes it, everywhere else it leaves the with block and    *)
(* ends the process.                                                       *)
OnRaise(s, i) == IF InTry(s, i) THEN "except" ELSE "unwind"

(* After the last statement: "app" leaves its try block through finally,   *)
(* the others leave the with block.                                        *)
AfterBody(s) == IF s = "app" THEN "finally" ELSE "exit"

(* Faulty variant: the screenshot call returns without a file. *)
AfterShotLost(w, o, st) == w

(* page.screenshot(path=...) returned: the file exists. *)
AfterShot(w, o, st) == Append(w, [ord |-> o, settled |-> st])

(* Faulty variant: the settle delay is missing. *)
AfterSleepNone(st) == st

(* time.sleep / asyncio.sleep returned: the settle delay is over. *)
AfterSleep(st) == TRUE

(* Faulty variant: Playwright is started without a with block and never stopped. *)
BrowserAfterExitLeaked(open) == open

(* Leaving `with sync_playwright()` / `async with async_playwright()`      *)
(* stops Playwright, which ends every browser it launched.                 *)
BrowserAfterExit(open) == FALSE

(* Python ends with status 1 on an uncaught exception, 0 otherwise. *)
ExitStatus(c) == IF c = "unwind" THEN 1 ELSE 0

Cur == Steps(script)[pc]

AtStep(kind) ==
  /\ ctl = "running"
  /\ pc <= NSteps(script)
  /\ Cur.op = kind

Count == [attempts EXCEPT ![pc] = @ + 1]

Init ==
  /\ script \in Scripts
  /\ ctl = "notstarted"
  /\ pc = 1
  /\ browserOpen = FALSE
  /\ launched = FALSE
  /\ closeCalls = 0
  /\ closures = 0
  /\ attempts = [i \in 1..NSteps(script) |-> 0]
  /\ visible = [i \in 1..NSteps(script) |-> "unknown"]
  /\ written = << >>
  /\ settled = TRUE
  /\ failedAt = 0
  /\ logged = FALSE
  /\ exitCode = -1

(* The statement at pc returned: go on with the next one. *)
Advance ==
  /\ pc' = NextPc(pc)
  /\ ctl' = IF NextPc(pc) > NSteps(script) THEN AfterBody(script) ELSE "running"
  /\ UNCHANGED << failedAt >>

(* Faulty variant: each statement swallows its own exception and the run goes on. *)
RaiseSwallowed ==
  /\ failedAt' = pc
  /\ pc' = NextPc(pc)
  /\ ctl' = IF NextPc(pc) > NSteps(script) THEN AfterBody(script) ELSE "running"

(* The statement at pc raised. *)
Raise ==
  /\ failedAt' = pc
  /\ ctl' = OnRaise(script, pc)
  /\ UNCHANGED << pc >>

(* The script starts: os.makedirs and entry of the with block. *)
Start ==
  /\ ctl = "notstarted"
  /\ ctl' = "running"
  /\ UNCHANGED << script, pc, browserOpen, launched, closeCalls, closures, attempts,
                  visible, written, settled, failedAt, logged, exitCode >>

(* browser = p.chromium.launch(...) *)
DoLaunch ==
  /\ AtStep("launch")
  /\ attempts' = Count
  /\ \/ /\ browserOpen' = TRUE
        /\ launched' = TRUE
        /\ Advance
     \/ /\ UNCHANGED << browserOpen, launched >>
        /\ Raise
  /\ UNCHANGED << script, closeCalls, closures, visible, written, settled, logged,
                  exitCode >>

(* A required call: new_page, set_viewport_size, goto, wait_for_load_state, *)
(* wait_for_selector, click, fill, keyboard.press, first, evaluate, count. *)
DoAct ==
  /\ AtStep("act")
  /\ attempts' = Count
  /\ settled' = IF Cur.name \in UIActions THEN FALSE ELSE settled
  /\ \/ Advance
     \/ Raise
  /\ UNCHANGED << script, browserOpen, launched, closeCalls, closures, visible, written,
                  logged, exitCode >>

(* time.sleep(n) / await asyncio.sleep(n) *)
DoSleep ==
  /\ AtStep("sleep")
  /\ attempts' = Count
  /\ settled' = AfterSleep(settled)
  /\ Advance
  /\ UNCHANGED << script, browserOpen, launched, closeCalls, closures, visible, written,
                  logged, exitCode >>

(* page.screenshot(path='.../NN_label.png', full_page=True) *)
DoScreenshot ==
  /\ AtStep("shot")
  /\ attempts' = Count
  /\ \/ /\ written' = AfterShot(written, ShotOrdinal(script, pc), settled)
        /\ Advance
     \/ /\ UNCHANGED written
        /\ Raise
  /\ UNCHANGED << script, browserOpen, launched, closeCalls, closures, visible, settled,
                  logged, exitCode >>

(* if locator.is_visible(): ... / if canvas_exists: ... *)
DoIf ==
  /\ AtStep("if")
  /\ attempts' = Count
  /\ \E v \in BOOLEAN :
       /\ visible' = [visible EXCEPT ![pc] = IF v THEN "yes" ELSE "no"]
       /\ LET n == IF v THEN NextPc(pc) ELSE SkipTo(script, pc)
          IN /\ pc' = n
             /\ ctl' = IF n > NSteps(script) THEN AfterBody(script) ELSE "running"
  /\ UNCHANGED << script, browserOpen, launched, closeCalls, closures, written, settled,
                  failedAt, logged, exitCode >>

(* browser.close() as the last statement of the sync scripts. *)
DoClose ==
  /\ AtStep("close")
  /\ attempts' = Count
  /\ closeCalls' = closeCalls + 1
  /\ closures' = closures + (IF browserOpen THEN 1 ELSE 0)
  /\ browserOpen' = FALSE
  /\ Advance
  /\ UNCHANGED << script, launched, visible, written, settled, logged, exitCode >>

(* except Exception as e: print the error and the traceback. *)
Except ==
  /\ ctl = "except"
  /\ logged' = TRUE
  /\ ctl' = "finally"
  /\ UNCHANGED << script, pc, browserOpen, launched, closeCalls, closures, attempts,
                  visible, written, settled, failedAt, exitCode >>

(* finally: await browser.close() *)
Finally ==
  /\ ctl = "finally"
  /\ closeCalls' = closeCalls + 1
  /\ closures' = closures + (IF browserOpen THEN 1 ELSE 0)
  /\ browserOpen' = FALSE
  /\ ctl' = "exit"
  /\ UNCHANGED << script, pc, launched, attempts, visible, written, settled, failedAt,
                  logged, exitCode >>

(* The with block is left, normally or by an exception, and the process ends. *)
ExitWith ==
  /\ ctl \in {"exit", "unwind"}
  /\ browserOpen' = BrowserAfterExit(browserOpen)
  /\ closures' = closures + (IF browserOpen /\ ~BrowserAfterExit(browserOpen) THEN 1 ELSE 0)
  /\ exitCode' = ExitStatus(ctl)
  /\ ctl' = "done"
  /\ UNCHANGED << script, pc, launched, closeCalls, attempts, visible, written, settled,
                  failedAt, logged >>

Next ==
  \/ Start
  \/ DoLaunch
  \/ DoAct
  \/ DoSleep
  \/ DoScreenshot
  \/ DoIf
  \/ DoClose
  \/ Except
  \/ Finally
  \/ ExitWith

Spec == Init /\ [][Next]_vars

(* The interpreter runs one statement after the other and every library    *)
(* call returns or raises within its timeout, so a run never stops early.  *)
FairSpec == Spec /\ WF_vars(Next)

(***************************************************************************)
(* Vocabulary of the properties                                            *)
(***************************************************************************)

(* Ordinals of the screenshot files written so far. *)
Ords == {written[j].ord : j \in DOMAIN written}

IsShot(i) == Steps(script)[i].op = "shot"

(* The if statements of the running script; those that test is_visible(). *)
Gates == {k \in 1..NSteps(script) : Steps(script)[k].op = "if"}

VisGates == {k \in Gates : Steps(script)[k].name = "is_visible"}

(* The statements inside the block of the if at statement k. *)
Block(k) == {i \in 1..NSteps(script) : k < i /\ i < ElseIndex[script][k]}

(* The if statements whose blocks enclose statement i. *)
Guards(i) == Enclosing[script][i]

(* Statement t was executed; for t past the end: the body ran to its end. *)
Reached(t) ==
  IF t <= NSteps(script) THEN attempts[t] >= 1
  ELSE ctl \notin {"notstarted", "running"} /\ failedAt = 0

(* The runner states of the specification, read off the control state. *)
Phase ==
  CASE ctl = "notstarted" -> "NotStarted"
    [] ctl = "running" -> "Running"
    [] ctl \notin {"notstarted", "running"} /\ failedAt # 0 -> "Aborted"
    [] OTHER -> "Completed"

(* First statement not reached: the one that raised, else the next one. *)
Frontier ==
  IF failedAt # 0 THEN failedAt
  ELSE IF ctl \in {"notstarted", "running"} THEN pc
  ELSE NSteps(script) + 1

(* Screenshot statements reached before any abort whose enclosing checks   *)
(* all answered visible.                                                   *)
ExpectedShots ==
  {i \in 1..NSteps(script) :
     /\ IsShot(i)
     /\ i < Frontier
     /\ \A k \in Guards(i) : visible[k] = "yes"}

(***************************************************************************)
(* C1: in every run the launched browser is closed exactly once by the     *)
(* time the run ends (never zero times, never twice), whether all steps    *)
(* succeeded, gated steps were skipped, or a call raised. A close is the   *)
(* browser going from open to closed: by browser.close(), or by the exit   *)
(* of the Playwright with block when an exception skipped browser.close(). *)
(***************************************************************************)
C1_ClosedExactlyOnce ==
  /\ closures <= 1
  /\ browserOpen => closures = 0
  /\ ctl = "done" => /\ ~browserOpen
                     /\ closures = (IF launched THEN 1 ELSE 0)

C1_Witness ==
  /\ ctl = "done"
  /\ script = "sync"
  /\ failedAt # 0
  /\ Steps(script)[failedAt].name = "click"
  /\ closeCalls = 0
  /\ closures = 1

(* A check answered "not visible" and the statement after its block has    *)
(* not been executed yet.                                                  *)
SkipPending ==
  \E k \in VisGates :
    visible[k] = "no" /\ ~Reached(ElseIndex[script][k])

(* A check that answered "not visible": its block is untouched and the     *)
(* statement after the block was executed or is the next one to execute.   *)
SkipSafe ==
  \A k \in VisGates :
    visible[k] = "no" =>
      /\ \A i \in Block(k) : attempts[i] = 0
      /\ \/ Reached(ElseIndex[script][k])
         \/ /\ ctl = "running"
            /\ pc = ElseIndex[script][k]
            /\ failedAt = 0

(***************************************************************************)
(* C2: an is_visible() check that answers "not visible" is a skip, not an  *)
(* abort: no statement of its block (action or screenshot) is executed,    *)
(* the run is not aborted by it, and the first statement after the block   *)
(* is still executed in the same run.                                      *)
(***************************************************************************)
C2_SkipNotAbort == [](SkipSafe) /\ (SkipPending ~> ~SkipPending)

C2_Witness ==
  /\ script = "dash"
  /\ visible[Target("dash", 34)] = "no"
  /\ attempts[Target("dash", 57)] = 1
  /\ Ords = {1, 2}

(***************************************************************************)
(* C3: when a required call (goto, click, fill, wait_for_load_state,       *)
(* wait_for_selector, ...) raises at statement k, no statement after k is  *)
(* executed, so no screenshot file of a later step is written, and the     *)
(* browser is closed when the run has ended.                               *)
(***************************************************************************)
C3_FatalStopsShots ==
  (failedAt # 0 /\ Steps(script)[failedAt].op = "act") =>
    /\ \A i \in 1..NSteps(script) :
         i > failedAt => /\ attempts[i] = 0
                         /\ IsShot(i) => Steps(script)[i].ord \notin Ords
    /\ ctl = "done" => ~browserOpen

C3_Witness ==
  /\ ctl = "done"
  /\ failedAt # 0
  /\ script = "sync"
  /\ Steps(script)[failedAt].name = "wait_for_load_state"
  /\ Ords = {1}
  /\ closeCalls = 0
  /\ ~browserOpen

(***************************************************************************)
(* C4: in every state the screenshot files written are exactly those of    *)
(* the screenshot statements that were reached before any abort and whose  *)
(* enclosing visibility checks all held: equally many, none missing, none  *)
(* extra, none written twice.                                              *)
(***************************************************************************)
C4_ShotCount ==
  /\ Len(written) = Cardinality(ExpectedShots)
  /\ Ords = {Steps(script)[i].ord : i \in ExpectedShots}

C4_Witness ==
  /\ script = "dash"
  /\ ctl = "done"
  /\ visible[Target("dash", 34)] = "yes"
  /\ failedAt = Target("dash", 45)
  /\ Ords = {1, 2, 3}

(***************************************************************************)
(* C5: a run that completes fully ends with exit code 0 and a run that     *)
(* hits a fatal abort ends with a non-zero exit code.                      *)
(***************************************************************************)
C5_ExitCode == ctl = "done" => (exitCode = 0 <=> failedAt = 0)

C7_OrdinalsIncrease ==
  \A i, j \in DOMAIN written : i < j => written[i].ord < written[j].ord

C7_Witness ==
  /\ script = "dash"
  /\ visible[Target("dash", 34)] = "yes"
  /\ Len(written) = 4

(* The allowed moves of the runner, and nothing executed after the end. *)
PhaseStep ==
  /\ << Phase, Phase' >> \in
       { << "NotStarted", "Running" >>, << "Running", "Running" >>,
         << "Running", "Completed" >>, << "Running", "Aborted" >>,
         << "Completed", "Completed" >>, << "Aborted", "Aborted" >> }
  /\ Phase \in {"Completed", "Aborted"} =>
       /\ attempts' = attempts
       /\ written' = written

(***************************************************************************)
(* C8: the runner moves only NotStarted -> Running -> Completed or         *)
(* Aborted; every statement is executed at most once per run; once the run *)
(* is Completed or Aborted no statement is executed and no screenshot is   *)
(* written.                                                                *)
(***************************************************************************)
C8_OncePerRun ==
  /\ [](\A i \in DOMAIN attempts : attempts[i] <= 1)
  /\ [][PhaseStep]_vars

C8_Witness ==
  /\ ctl = "done"
  /\ Phase = "Aborted"
  /\ attempts[failedAt] = 1
  /\ failedAt > 20

(***************************************************************************)
(* C9 as claimed: in all four scripts every screenshot is taken only after *)
(* the settle delay that follows the preceding navigation/click/fill/press.*)
(***************************************************************************)
C9_AlwaysSettled == \A j \in DOMAIN written : written[j].settled

(***************************************************************************)
(* C9 amended: every screenshot is taken after the settle delay of the     *)
(* preceding action, except 01_initial_load of test_dashboard.py, which is *)
(* taken right after goto/wait_for_load_state, before the sleep.           *)
(***************************************************************************)
C9_SettledButDashFirst ==
  \A j \in DOMAIN written :
    written[j].settled <=> ~(script = "dash" /\ written[j].ord = 1)

C9_Witness ==
  /\ script = "dash"
  /\ Len(written) = 4
  /\ ctl = "done"

(* Ordinals of the screenshots of "app" that no if block encloses. *)
UngatedOrds == {Steps("app")[i].ord : i \in {i \in 1..NSteps("app") :
                  Steps("app")[i].op = "shot" /\ Enclosing["app"][i] = {}}}

(* The keyboard.press('Escape') statements of "app" executed so far. *)
EscPressed ==
  {i \in 1..NSteps("app") : Steps("app")[i].name = "press" /\ attempts[i] >= 1}

====
